---- MODULE Spec2Model ----
(***************************************************************************)
(* Model of paint-cto.py: a batch script that rasterizes messages with a   *)
(* 7x5 font, maps the "on" cells to dates, and replays the sorted events   *)
(* as dated commits on an orphan branch.                                   *)
(*                                                                         *)
(* A date string "YYYY-MM-DD" is modelled by its day number.  A datetime   *)
(* is a record [day, hour, sec, us]: sec counts the seconds inside the     *)
(* hour, us the microseconds.  An ISO-8601 string of second precision is   *)
(* a record [day, hour, sec]; the UTC offset is the fixed TZ everywhere.   *)
(* A text (message, bitmap row) is a sequence of one-character strings.    *)
(* A line of the log file is a record: [text] for a literal line, or the   *)
(* ISO-8601 record of a timestamp line.                                    *)
(***************************************************************************)
EXTENDS Integers, Sequences, FiniteSets, TLC

\* ------------------------------------------------------------------ bounds
MaxPeriods == 2
MaxNowDay == 1

\* ------------------------------------------------------- program constants
HOUR == 12
PIXELS_FILE == "pixels.txt"
\* The line "pixel log\n" written at line 244.
HEADER == [text |-> "pixel log"]

H == "#"
D == "."

FONT ==
  [ I |-> << <<H,H,H,H,H>>, <<D,D,H,D,D>>, <<D,D,H,D,D>>, <<D,D,H,D,D>>,
             <<D,D,H,D,D>>, <<D,D,H,D,D>>, <<H,H,H,H,H>> >>,
    M |-> << <<H,D,D,D,H>>, <<H,H,D,H,H>>, <<H,D,H,D,H>>, <<H,D,D,D,H>>,
             <<H,D,D,D,H>>, <<H,D,D,D,H>>, <<H,D,D,D,H>> >>,
    C |-> << <<D,H,H,H,D>>, <<H,D,D,D,H>>, <<H,D,D,D,D>>, <<H,D,D,D,D>>,
             <<H,D,D,D,D>>, <<H,D,D,D,H>>, <<D,H,H,H,D>> >>,
    T |-> << <<H,H,H,H,H>>, <<D,D,H,D,D>>, <<D,D,H,D,D>>, <<D,D,H,D,D>>,
             <<D,D,H,D,D>>, <<D,D,H,D,D>>, <<D,D,H,D,D>> >>,
    O |-> << <<D,H,H,H,D>>, <<H,D,D,D,H>>, <<H,D,D,D,H>>, <<H,D,D,D,H>>,
             <<H,D,D,D,H>>, <<H,D,D,D,H>>, <<D,H,H,H,D>> >>,
    W |-> << <<H,D,D,D,H>>, <<H,D,D,D,H>>, <<H,D,D,D,H>>, <<H,D,H,D,H>>,
             <<H,D,H,D,H>>, <<H,H,D,H,H>>, <<H,D,D,D,H>> >>,
    E |-> << <<H,H,H,H,H>>, <<H,D,D,D,D>>, <<H,H,H,H,D>>, <<H,D,D,D,D>>,
             <<H,D,D,D,D>>, <<H,D,D,D,D>>, <<H,H,H,H,H>> >>,
    G |-> << <<D,H,H,H,D>>, <<H,D,D,D,H>>, <<H,D,D,D,D>>, <<H,D,H,H,H>>,
             <<H,D,D,D,H>>, <<H,D,D,D,H>>, <<D,H,H,H,H>> >>,
    R |-> << <<H,H,H,H,D>>, <<H,D,D,D,H>>, <<H,D,D,D,H>>, <<H,H,H,H,D>>,
             <<H,D,H,D,D>>, <<H,D,D,H,D>>, <<H,D,D,D,H>> >>,
    F |-> << <<H,H,H,H,H>>, <<H,D,D,D,D>>, <<H,H,H,H,D>>, <<H,D,D,D,D>>,
             <<H,D,D,D,D>>, <<H,D,D,D,D>>, <<H,D,D,D,D>> >>,
    L |-> << <<H,D,D,D,D>>, <<H,D,D,D,D>>, <<H,D,D,D,D>>, <<H,D,D,D,D>>,
             <<H,D,D,D,D>>, <<H,D,D,D,D>>, <<H,H,H,H,H>> >>,
    A |-> << <<D,H,H,H,D>>, <<H,D,D,D,H>>, <<H,D,D,D,H>>, <<H,H,H,H,H>>,
             <<H,D,D,D,H>>, <<H,D,D,D,H>>, <<H,D,D,D,H>> >>,
    N |-> << <<H,D,D,D,H>>, <<H,H,D,D,H>>, <<H,D,H,D,H>>, <<H,D,D,H,H>>,
             <<H,D,D,D,H>>, <<H,D,D,D,H>>, <<H,D,D,D,H>> >> ]
  @@ ("'" :> << <<D,D,H,D,D>>, <<D,D,H,D,D>>, <<D,D,D,D,D>>, <<D,D,D,D,D>>,
                <<D,D,D,D,D>>, <<D,D,D,D,D>>, <<D,D,D,D,D>> >>)
  @@ (" " :> << <<D,D,D,D,D>>, <<D,D,D,D,D>>, <<D,D,D,D,D>>, <<D,D,D,D,D>>,
                <<D,D,D,D,D>>, <<D,D,D,D,D>>, <<D,D,D,D,D>> >>)
  @@ ("@" :> << <<D,H,H,H,D>>, <<H,D,D,D,H>>, <<H,D,H,H,H>>, <<H,D,H,D,H>>,
                <<H,D,H,H,H>>, <<H,D,D,D,D>>, <<D,H,H,H,D>> >>)

\* ------------------------------------------------------------ input domains
\* Messages of the configured timeline; "9" is not in FONT.
Messages == { <<>>, <<" ">>, <<"I">>, <<"'">>, <<" ", "'">>, <<"I", "9">> }
\* Start dates (day numbers); 0 and 7 are two consecutive week starts.
Starts == {0, 7}
Periods == [start : Starts, message : Messages]
Timelines == UNION { [1..n -> Periods] : n \in 0..MaxPeriods }
\* Working trees found by os.walk: (root, file) pairs in walk order.
Trees == { <<>>,
           << [root |-> ".", file |-> "pixels.txt"],
              [root |-> ".", file |-> "a.txt"],
              [root |-> "./.git", file |-> "config"] >> }
\* Readings of the clock (datetime.now): any time of day, with microseconds.
Nows == [day : 0..MaxNowDay, hour : {0, HOUR}, sec : {0, 59}, us : {0, 1}]
NoTime == [day |-> 0 - 1, hour |-> 0, sec |-> 0, us |-> 0]

\* ------------------------------------------------------- datetime functions
\* datetime.fromisoformat(s).replace(tzinfo=TZ, hour=HOUR, minute=0, second=0)
StartOf(dayNumber) == [day |-> dayNumber, hour |-> HOUR, sec |-> 0, us |-> 0]

\* dt + timedelta(weeks=w, days=d)
PlusDelta(dt, w, d) == [dt EXCEPT !.day = dt.day + 7 * w + d]

\* dt.isoformat(timespec="seconds"): microseconds are dropped
isoformat(dt) == [day |-> dt.day, hour |-> dt.hour, sec |-> dt.sec]

\* datetime comparison, the key order of the sort
DtLess(a, b) ==
  \/ a.day < b.day
  \/ a.day = b.day /\ a.hour < b.hour
  \/ a.day = b.day /\ a.hour = b.hour /\ a.sec < b.sec
  \/ a.day = b.day /\ a.hour = b.hour /\ a.sec = b.sec /\ a.us < b.us

\* ------------------------------------------------------------- rasterizer
\* The result of build_rows: the seven rows, or raised = TRUE when the
\* ValueError "Unsupported char" is raised.
RECURSIVE build_rows_from(_, _, _)
build_rows_from(message, i, rows) ==
  IF i > Len(message) THEN [raised |-> FALSE, rows |-> rows]
  ELSE IF message[i] \notin DOMAIN FONT THEN [raised |-> TRUE, rows |-> rows]
  ELSE build_rows_from(message, i + 1,
         [r \in 1..7 |-> rows[r] \o FONT[message[i]][r] \o <<D>>])

build_rows(message) == build_rows_from(message, 1, [r \in 1..7 |-> <<>>])

\* ------------------------------------------------------------ date mapper
\* Variant: week and day offsets exchanged, timedelta(weeks=r, days=c).
RECURSIVE paint_cells_swapped(_, _, _, _, _, _)
paint_cells_swapped(rows, width, k, message, start_date, all) ==
  IF k >= 7 * width THEN all
  ELSE LET r == k \div width
           c == k % width
       IN IF rows[r + 1][c + 1] # H
          THEN paint_cells_swapped(rows, width, k + 1, message, start_date, all)
          ELSE paint_cells_swapped(rows, width, k + 1, message, start_date,
                 Append(all, [ts |-> PlusDelta(start_date, r, c),
                              message |-> message]))

\* Variant: the row loop stops one row early, range(6).
RECURSIVE paint_cells_6rows(_, _, _, _, _, _)
paint_cells_6rows(rows, width, k, message, start_date, all) ==
  IF k >= 6 * width THEN all
  ELSE LET r == k \div width
           c == k % width
       IN IF rows[r + 1][c + 1] # H
          THEN paint_cells_6rows(rows, width, k + 1, message, start_date, all)
          ELSE paint_cells_6rows(rows, width, k + 1, message, start_date,
                 Append(all, [ts |-> PlusDelta(start_date, c, r),
                              message |-> message]))

\* The nested loops "for r in range(7): for c in range(width)" visit cell
\* number k = r * width + c in increasing k.
RECURSIVE paint_cells(_, _, _, _, _, _)
paint_cells(rows, width, k, message, start_date, all) ==
  IF k >= 7 * width THEN all
  ELSE LET r == k \div width
           c == k % width
       IN IF rows[r + 1][c + 1] # H
          THEN paint_cells(rows, width, k + 1, message, start_date, all)
          ELSE paint_cells(rows, width, k + 1, message, start_date,
                 Append(all, [ts |-> PlusDelta(start_date, c, r),
                              message |-> message]))

\* paint_message: the extended list, or raised = TRUE when build_rows
\* raises (the list is untouched at that point).
paint_message(message, start_date, all) ==
  LET b == build_rows(message)
  IN IF b.raised THEN [raised |-> TRUE, all |-> all]
     ELSE [raised |-> FALSE,
           all |-> paint_cells(b.rows, Len(b.rows[1]), 0, message, start_date, all)]

\* ------------------------------------------------------------------- sort
\* list.sort(key=lambda x: x[0]) is a stable ascending sort: an element is
\* placed after every element whose key is not greater than its own.
InsertDropTies(s, e) ==
  LET k == Cardinality({i \in 1..Len(s) : ~DtLess(e.ts, s[i].ts)})
  IN IF \E i \in 1..Len(s) : s[i].ts = e.ts THEN s
     ELSE SubSeq(s, 1, k) \o <<e>> \o SubSeq(s, k + 1, Len(s))

InsertBeforeTies(s, e) ==
  LET k == Cardinality({i \in 1..Len(s) : DtLess(s[i].ts, e.ts)})
  IN SubSeq(s, 1, k) \o <<e>> \o SubSeq(s, k + 1, Len(s))

InsertStable(s, e) ==
  LET k == Cardinality({i \in 1..Len(s) : ~DtLess(e.ts, s[i].ts)})
  IN SubSeq(s, 1, k) \o <<e>> \o SubSeq(s, k + 1, Len(s))

RECURSIVE sort_by_ts(_)
sort_by_ts(s) ==
  IF s = <<>> THEN <<>>
  ELSE InsertStable(sort_by_ts(SubSeq(s, 1, Len(s) - 1)), s[Len(s)])

\* ------------------------------------------------------------------ state
VARIABLES
  isRepo,       \* os.path.exists(".git")
  tree,         \* the working tree as os.walk lists it
  TIMELINE,     \* the configured periods
  pc,           \* the statement main() is at
  outcome,      \* "running", "returned", "done", or the uncaught exception
  all_files,    \* paths collected by the inventory
  fi,           \* position of the staging loop in all_files
  branch,       \* the checked-out branch
  index,        \* the paths staged in the index
  logFile,      \* the lines of pixels.txt; <<>> when the file does not exist
  all_commits,  \* the events (ts, message)
  pidx,         \* position of the painting loop in TIMELINE
  now,          \* the clock reading of datetime.now, NoTime if never read
  start_init,   \* the date of the seed commit
  idx,          \* position of the replay loop in all_commits
  commits,      \* the commits created on the branch, oldest first
  ncmds,        \* number of git commands issued
  failures      \* the steps at which a git command has failed

vars == << isRepo, tree, TIMELINE, pc, outcome, all_files, fi, branch, index,
           logFile, all_commits, pidx, now, start_init, idx, commits, ncmds,
           failures >>

\* State of the repository and of the working tree before the run.
TrackedIn(t) == { t[i].file : i \in { j \in 1..Len(t) : t[j].root = "." } }
LogIn(t) ==
  IF \E i \in 1..Len(t) : t[i].root = "." /\ t[i].file = PIXELS_FILE
  THEN << [text |-> "stale"] >> ELSE <<>>

Init ==
  /\ isRepo \in BOOLEAN
  /\ tree \in Trees
  /\ TIMELINE \in Timelines
  /\ pc = "check"
  /\ outcome = "running"
  /\ all_files = <<>>
  /\ fi = 1
  /\ branch = "main"
  /\ index = TrackedIn(tree)
  /\ logFile = LogIn(tree)
  /\ all_commits = <<>>
  /\ pidx = 1
  /\ now = NoTime
  /\ start_init = NoTime
  /\ idx = 1
  /\ commits = <<>>
  /\ ncmds = 0
  /\ failures = {}

\* os.walk("."), skipping every root that contains ".git"; os.path.join
walk(t) ==
  LET kept == SelectSeq(t, LAMBDA e : e.root # "./.git")
  IN [i \in 1..Len(kept) |-> <<kept[i].root, kept[i].file>>]

\* The run ends with an uncaught exception; nothing else changes.
Raise(exc) == outcome' = exc

\* ---------------------------------------------------------------- actions
\* Variant: the inventory starts without the check for ".git".
CheckRepoProceeds ==
  /\ outcome = "running" /\ pc = "check"
  /\ all_files' = walk(tree)
  /\ pc' = "checkout"
  /\ UNCHANGED << isRepo, tree, TIMELINE, outcome, fi, branch, index, logFile,
                  all_commits, pidx, now, start_init, idx, commits, ncmds,
                  failures >>

\* Lines 207-221: the repository check and the file inventory.
CheckRepo ==
  /\ outcome = "running" /\ pc = "check"
  /\ IF ~isRepo
     THEN /\ outcome' = "returned"
          /\ UNCHANGED << pc, all_files >>
     ELSE /\ all_files' = walk(tree)
          /\ pc' = "checkout"
          /\ UNCHANGED outcome
  /\ UNCHANGED << isRepo, tree, TIMELINE, fi, branch, index, logFile,
                  all_commits, pidx, now, start_init, idx, commits, ncmds,
                  failures >>

\* Line 225: git checkout --orphan painted-history.
Checkout ==
  /\ outcome = "running" /\ pc = "checkout"
  /\ ncmds' = ncmds + 1
  /\ \E ok \in BOOLEAN :
       IF ok
       THEN /\ branch' = "painted-history"
            /\ pc' = "rm_cached"
            /\ UNCHANGED << outcome, failures >>
       ELSE /\ Raise("CalledProcessError")
            /\ failures' = failures \cup {"checkout"}
            /\ UNCHANGED << branch, pc >>
  /\ UNCHANGED << isRepo, tree, TIMELINE, all_files, fi, index, logFile,
                  all_commits, pidx, now, start_init, idx, commits >>

\* Lines 228-231: git rm -rf --cached . inside try/except.
RmCached ==
  /\ outcome = "running" /\ pc = "rm_cached"
  /\ ncmds' = ncmds + 1
  /\ \E ok \in BOOLEAN :
       IF ok
       THEN /\ index' = {}
            /\ UNCHANGED failures
       ELSE /\ failures' = failures \cup {"rm_cached"}
            /\ UNCHANGED index
  /\ pc' = "add_files"
  /\ fi' = 1
  /\ UNCHANGED << isRepo, tree, TIMELINE, outcome, all_files, branch, logFile,
                  all_commits, pidx, now, start_init, idx, commits >>

\* Variant: the git add of a pre-existing file is not wrapped in try/except.
AddFileFatal ==
  /\ outcome = "running" /\ pc = "add_files" /\ fi <= Len(all_files)
  /\ IF all_files[fi] = <<".", PIXELS_FILE>>
     THEN /\ fi' = fi + 1
          /\ UNCHANGED << index, ncmds, failures, outcome >>
     ELSE /\ ncmds' = ncmds + 1
          /\ \E ok \in BOOLEAN :
               IF ok
               THEN /\ index' = index \cup {all_files[fi][2]}
                    /\ fi' = fi + 1
                    /\ UNCHANGED << failures, outcome >>
               ELSE /\ failures' = failures \cup {"add_files"}
                    /\ Raise("CalledProcessError")
                    /\ UNCHANGED << index, fi >>
  /\ UNCHANGED << isRepo, tree, TIMELINE, pc, all_files, branch,
                  logFile, all_commits, pidx, now, start_init, idx, commits >>

\* Lines 235-240: one iteration of the staging loop; pixels.txt is skipped,
\* a failing git add is swallowed.
AddFile ==
  /\ outcome = "running" /\ pc = "add_files" /\ fi <= Len(all_files)
  /\ IF all_files[fi] = <<".", PIXELS_FILE>>
     THEN UNCHANGED << index, ncmds, failures >>
     ELSE /\ ncmds' = ncmds + 1
          /\ \E ok \in BOOLEAN :
               IF ok
               THEN /\ index' = index \cup {all_files[fi][2]}
                    /\ UNCHANGED failures
               ELSE /\ failures' = failures \cup {"add_files"}
                    /\ UNCHANGED index
  /\ fi' = fi + 1
  /\ UNCHANGED << isRepo, tree, TIMELINE, pc, outcome, all_files, branch,
                  logFile, all_commits, pidx, now, start_init, idx, commits >>

\* Lines 243-244: open(PIXELS_FILE, "w") and the header line.
WriteLog ==
  /\ outcome = "running" /\ pc = "add_files" /\ fi > Len(all_files)
  /\ logFile' = <<HEADER>>
  /\ pc' = "add_log"
  /\ UNCHANGED << isRepo, tree, TIMELINE, outcome, all_files, fi, branch,
                  index, all_commits, pidx, now, start_init, idx, commits,
                  ncmds, failures >>

\* Lines 245-248: git add pixels.txt, then all_commits = [].
AddLog ==
  /\ outcome = "running" /\ pc = "add_log"
  /\ ncmds' = ncmds + 1
  /\ \E ok \in BOOLEAN :
       IF ok
       THEN /\ index' = index \cup {PIXELS_FILE}
            /\ all_commits' = <<>>
            /\ pidx' = 1
            /\ pc' = "paint"
            /\ UNCHANGED << outcome, failures >>
       ELSE /\ Raise("CalledProcessError")
            /\ failures' = failures \cup {"add_log"}
            /\ UNCHANGED << index, all_commits, pidx, pc >>
  /\ UNCHANGED << isRepo, tree, TIMELINE, all_files, fi, branch, logFile,
                  now, start_init, idx, commits >>

\* Lines 250-252: one iteration of the painting loop.
PaintPeriod ==
  /\ outcome = "running" /\ pc = "paint" /\ pidx <= Len(TIMELINE)
  /\ LET start == StartOf(TIMELINE[pidx].start)
         res == paint_message(TIMELINE[pidx].message, start, all_commits)
     IN IF res.raised
        THEN /\ Raise("ValueError")
             /\ UNCHANGED << all_commits, pidx >>
        ELSE /\ all_commits' = res.all
             /\ pidx' = pidx + 1
             /\ UNCHANGED outcome
  /\ UNCHANGED << isRepo, tree, TIMELINE, pc, all_files, fi, branch, index,
                  logFile, now, start_init, idx, commits, ncmds, failures >>

\* Variant: the seed commit gets the date of the first event itself.
SortTimelineSameDay ==
  /\ outcome = "running" /\ pc = "paint" /\ pidx > Len(TIMELINE)
  /\ all_commits' = sort_by_ts(all_commits)
  /\ IF all_commits' # <<>>
     THEN /\ start_init' = all_commits'[1].ts
          /\ UNCHANGED now
     ELSE /\ \E n \in Nows : now' = n
          /\ start_init' = now'
  /\ pc' = "seed"
  /\ UNCHANGED << isRepo, tree, TIMELINE, outcome, all_files, fi, branch,
                  index, logFile, pidx, idx, commits, ncmds, failures >>

\* Lines 255-262: the sort, and the date of the seed commit.
SortTimeline ==
  /\ outcome = "running" /\ pc = "paint" /\ pidx > Len(TIMELINE)
  /\ all_commits' = sort_by_ts(all_commits)
  /\ IF all_commits' # <<>>
     THEN /\ start_init' = PlusDelta(all_commits'[1].ts, 0, 0 - 1)
          /\ UNCHANGED now
     ELSE /\ \E n \in Nows : now' = n
          /\ start_init' = now'
  /\ pc' = "seed"
  /\ UNCHANGED << isRepo, tree, TIMELINE, outcome, all_files, fi, branch,
                  index, logFile, pidx, idx, commits, ncmds, failures >>

\* git commit --date d -m msg with GIT_COMMITTER_DATE = d in the environment:
\* the new commit records the index.
Commit(msg, d) ==
  [message |-> msg, authored |-> d, committed |-> d, files |-> index]

\* Lines 265-268: the seed commit.
SeedCommit ==
  /\ outcome = "running" /\ pc = "seed"
  /\ ncmds' = ncmds + 1
  /\ \E ok \in BOOLEAN :
       IF ok
       THEN /\ commits' = Append(commits, Commit("init", isoformat(start_init)))
            /\ idx' = 1
            /\ pc' = "loop"
            /\ UNCHANGED << outcome, failures >>
       ELSE /\ Raise("CalledProcessError")
            /\ failures' = failures \cup {"seed"}
            /\ UNCHANGED << commits, idx, pc >>
  /\ UNCHANGED << isRepo, tree, TIMELINE, all_files, fi, branch, index,
                  logFile, all_commits, pidx, now, start_init >>

\* Variant: the log file is opened with "w" instead of "a".
ReplayWriteTruncating ==
  /\ outcome = "running" /\ pc = "loop" /\ idx <= Len(all_commits)
  /\ logFile' = <<isoformat(all_commits[idx].ts)>>
  /\ pc' = "loop_add"
  /\ UNCHANGED << isRepo, tree, TIMELINE, outcome, all_files, fi, branch,
                  index, all_commits, pidx, now, start_init, idx, commits,
                  ncmds, failures >>

\* Lines 272-279: the loop takes the next event and appends its line.
ReplayWrite ==
  /\ outcome = "running" /\ pc = "loop" /\ idx <= Len(all_commits)
  /\ logFile' = Append(logFile, isoformat(all_commits[idx].ts))
  /\ pc' = "loop_add"
  /\ UNCHANGED << isRepo, tree, TIMELINE, outcome, all_files, fi, branch,
                  index, all_commits, pidx, now, start_init, idx, commits,
                  ncmds, failures >>

\* Line 281: git add pixels.txt.
ReplayAdd ==
  /\ outcome = "running" /\ pc = "loop_add"
  /\ ncmds' = ncmds + 1
  /\ \E ok \in BOOLEAN :
       IF ok
       THEN /\ index' = index \cup {PIXELS_FILE}
            /\ pc' = "loop_commit"
            /\ UNCHANGED << outcome, failures >>
       ELSE /\ Raise("CalledProcessError")
            /\ failures' = failures \cup {"loop_add"}
            /\ UNCHANGED << index, pc >>
  /\ UNCHANGED << isRepo, tree, TIMELINE, all_files, fi, branch, logFile,
                  all_commits, pidx, now, start_init, idx, commits >>

\* Variant: GIT_COMMITTER_DATE is not passed, the committer date is the
\* wall clock.
ReplayCommitNoEnv ==
  /\ outcome = "running" /\ pc = "loop_commit"
  /\ ncmds' = ncmds + 1
  /\ \E ok \in BOOLEAN :
       IF ok
       THEN /\ \E n \in Nows :
                 commits' = Append(commits,
                   [Commit("pixel", isoformat(all_commits[idx].ts))
                      EXCEPT !.committed = isoformat(n)])
            /\ idx' = idx + 1
            /\ pc' = "loop"
            /\ UNCHANGED << outcome, failures >>
       ELSE /\ Raise("CalledProcessError")
            /\ failures' = failures \cup {"loop_commit"}
            /\ UNCHANGED << commits, idx, pc >>
  /\ UNCHANGED << isRepo, tree, TIMELINE, all_files, fi, branch, index,
                  logFile, all_commits, pidx, now, start_init >>

\* Lines 283-285: the pixel commit of the current event.
ReplayCommit ==
  /\ outcome = "running" /\ pc = "loop_commit"
  /\ ncmds' = ncmds + 1
  /\ \E ok \in BOOLEAN :
       IF ok
       THEN /\ commits' = Append(commits,
                            Commit("pixel", isoformat(all_commits[idx].ts)))
            /\ idx' = idx + 1
            /\ pc' = "loop"
            /\ UNCHANGED << outcome, failures >>
       ELSE /\ Raise("CalledProcessError")
            /\ failures' = failures \cup {"loop_commit"}
            /\ UNCHANGED << commits, idx, pc >>
  /\ UNCHANGED << isRepo, tree, TIMELINE, all_files, fi, branch, index,
                  logFile, all_commits, pidx, now, start_init >>

\* Lines 287-292: the loop is exhausted, the summary is printed.
Finish ==
  /\ outcome = "running" /\ pc = "loop" /\ idx > Len(all_commits)
  /\ outcome' = "done"
  /\ UNCHANGED << isRepo, tree, TIMELINE, pc, all_files, fi, branch, index,
                  logFile, all_commits, pidx, now, start_init, idx, commits,
                  ncmds, failures >>

Next ==
  \/ CheckRepo
  \/ Checkout
  \/ RmCached
  \/ AddFile
  \/ WriteLog
  \/ AddLog
  \/ PaintPeriod
  \/ SortTimeline
  \/ SeedCommit
  \/ ReplayWrite
  \/ ReplayAdd
  \/ ReplayCommit
  \/ Finish

Spec == Init /\ [][Next]_vars

\* ============================================================ properties
\* The "on" cells of a bitmap, as (row, column) pairs counted from 0.
OnCells(rows) ==
  { cell \in (0..6) \X (0..(Len(rows[1]) - 1)) :
      rows[cell[1] + 1][cell[2] + 1] = H }

\* The day on which the cell of a period starting at day s lands.
CellDay(s, cell) == s + 7 * cell[2] + cell[1]

RECURSIVE SumOnCells(_, _)
SumOnCells(tl, n) ==
  IF n = 0 THEN 0
  ELSE SumOnCells(tl, n - 1) + Cardinality(OnCells(build_rows(tl[n].message).rows))

\* The ISO string that denotes a datetime of whole seconds.
IsoOf(dt) == [day |-> dt.day, hour |-> dt.hour, sec |-> dt.sec]

IsoLess(a, b) ==
  \/ a.day < b.day
  \/ a.day = b.day /\ a.hour < b.hour
  \/ a.day = b.day /\ a.hour = b.hour /\ a.sec < b.sec

IsPrefix(s, t) == Len(s) <= Len(t) /\ SubSeq(t, 1, Len(s)) = s

PixelCommits == SelectSeq(commits, LAMBDA k : k.message = "pixel")

\* The sort has just run: all_commits is the merged timeline, which no
\* later statement assigns.
TimelineBuilt == outcome = "running" /\ pc = "seed"
LogInitialised == pc \in {"add_log", "paint", "seed", "loop", "loop_add", "loop_commit"}

FatalSteps == {"checkout", "add_log", "seed", "loop_add", "loop_commit"}
ToleratedSteps == {"rm_cached", "add_files"}

\* C1: when main() runs to completion the branch holds the seed commit and
\* then exactly one "pixel" commit per timeline event, the i-th one authored
\* and committed at the timestamp of the i-th event of the sorted timeline.
C1_OneCommitPerEvent ==
  outcome = "done" =>
    /\ Len(PixelCommits) = Len(all_commits)
    /\ Len(commits) = Len(all_commits) + 1
    /\ \A i \in 1..Len(all_commits) :
         /\ commits[i + 1].message = "pixel"
         /\ all_commits[i].ts.us = 0
         /\ commits[i + 1].authored = IsoOf(all_commits[i].ts)
         /\ commits[i + 1].committed = IsoOf(all_commits[i].ts)
    /\ \A i \in 1..(Len(all_commits) - 1) :
         ~DtLess(all_commits[i + 1].ts, all_commits[i].ts)

C1_Witness ==
  /\ outcome = "done"
  /\ Len(TIMELINE) = 2
  /\ TIMELINE[1].start > TIMELINE[2].start
  /\ Len(all_commits) >= 17

\* C2: when the unsupported-character error is raised, no side effect has
\* happened yet: no orphan branch, index unchanged, nothing staged, log file
\* not written, no commit.
C2_NoSideEffectBeforeError ==
  outcome = "ValueError" =>
    /\ branch = "main"
    /\ index = TrackedIn(tree)
    /\ logFile = LogIn(tree)
    /\ ncmds = 0
    /\ commits = <<>>

\* C3: outside an initialized repository main() returns without issuing a
\* git command and without touching branch, index, log file or history.
C3_NotARepoNoEffect ==
  /\ ~isRepo =>
       /\ outcome \in {"running", "returned"}
       /\ pc = "check"
       /\ ncmds = 0
       /\ branch = "main"
       /\ index = TrackedIn(tree)
       /\ logFile = LogIn(tree)
       /\ commits = <<>>
       /\ failures = {}
  /\ outcome = "returned" => ~isRepo

C3_Witness == outcome = "returned" /\ tree # <<>> /\ TIMELINE # <<>>

\* C4: painting a period appends exactly one event per "on" cell of the
\* rendered bitmap, the event of cell (r, c) dated start + c weeks + r days,
\* and leaves the events already in the list unchanged.
C4_PaintMessageEvents ==
  [][ (pc = "paint" /\ pidx <= Len(TIMELINE) /\ outcome' = "running") =>
        LET per == TIMELINE[pidx]
            on == OnCells(build_rows(per.message).rows)
            old == Len(all_commits)
            added == { k \in 1..Len(all_commits') : k > old }
        IN /\ Len(all_commits') = old + Cardinality(on)
           /\ SubSeq(all_commits', 1, old) = all_commits
           /\ \A cell \in on :
                Cardinality({ k \in added :
                  all_commits'[k].ts = [day |-> CellDay(per.start, cell),
                                        hour |-> HOUR, sec |-> 0, us |-> 0] }) = 1
           /\ \A k \in added :
                /\ all_commits'[k].message = per.message
                /\ \E cell \in on :
                     all_commits'[k].ts.day = CellDay(per.start, cell)
    ]_vars

C4_Witness ==
  /\ pc = "paint"
  /\ pidx = 3
  /\ TIMELINE[1].message = <<"I">>
  /\ TIMELINE[2].message = <<" ", "'">>
  /\ Len(all_commits) = 17

\* C5: the merged timeline is sorted non-decreasing by timestamp and has as
\* many events as the periods' bitmaps have "on" cells.
C5_TimelineSortedComplete ==
  TimelineBuilt =>
    /\ \A i \in 1..(Len(all_commits) - 1) :
         ~DtLess(all_commits[i + 1].ts, all_commits[i].ts)
    /\ Len(all_commits) = SumOnCells(TIMELINE, Len(TIMELINE))

C5_Witness ==
  /\ pc = "seed"
  /\ Len(TIMELINE) = 2
  /\ TIMELINE[1] = [start |-> 7, message |-> <<" ", "'">>]
  /\ TIMELINE[2] = [start |-> 0, message |-> <<"I">>]
  /\ Len(all_commits) = 17

\* The timeline of the single period ("I", d), painted.
PaintedI ==
  /\ outcome = "running"
  /\ pc \in {"paint", "seed"}
  /\ pidx = 2
  /\ Len(TIMELINE) = 1
  /\ TIMELINE[1].message = <<"I">>

ICoversGrid ==
  LET d == TIMELINE[1].start
      off == { all_commits[k].ts.day - d : k \in 1..Len(all_commits) }
  IN /\ off \subseteq { 7 * c + r : c \in 0..4, r \in 0..6 }
     /\ \A c \in 0..4 : \E o \in off : o \div 7 = c
     /\ \A r \in 0..6 : \E o \in off : o % 7 = r

\* C6 as stated: painting "I" yields exactly 19 events covering columns 0-4
\* and rows 0-6.
C6_NineteenEvents == PaintedI => Len(all_commits) = 19 /\ ICoversGrid

\* C6 amended: painting "I" yields exactly 15 events (two full rows of 5 and
\* 5 single cells) covering columns 0-4 and rows 0-6.
C6_FifteenEvents == PaintedI => Len(all_commits) = 15 /\ ICoversGrid

C6_Witness == PaintedI /\ pc = "seed" /\ TIMELINE[1].start = 7

\* C7: the seed commit is the first commit; with a non-empty timeline it is
\* dated one day before the earliest event, strictly before every pixel
\* commit; with an empty timeline it is still created, dated with the clock.
C7_SeedCommitFirst ==
  /\ outcome = "done" => commits # <<>>
  /\ commits # <<>> =>
       /\ commits[1].message = "init"
       /\ commits[1].authored = commits[1].committed
       /\ \A j \in 2..Len(commits) :
            /\ commits[j].message = "pixel"
            /\ IsoLess(commits[1].authored, commits[j].authored)
            /\ IsoLess(commits[1].committed, commits[j].committed)
       /\ all_commits # <<>> =>
            /\ commits[1].authored =
                 [day |-> all_commits[1].ts.day - 1,
                  hour |-> all_commits[1].ts.hour,
                  sec |-> all_commits[1].ts.sec]
            /\ \A i \in 1..Len(all_commits) :
                 IsoLess(commits[1].authored, IsoOf(all_commits[i].ts))
       /\ all_commits = <<>> =>
            /\ now \in Nows
            /\ commits[1].authored = IsoOf(now)

C7_Witness == outcome = "done" /\ Len(commits) >= 3 /\ TIMELINE[1].start = 7

\* C8 as stated: once the log file is initialised it is the header followed
\* by exactly one timestamp line per pixel commit created so far.
C8_OneLinePerCommit ==
  LogInitialised =>
    logFile = <<HEADER>> \o [i \in 1..Len(PixelCommits) |-> PixelCommits[i].authored]

\* C8 amended: once initialised, the log file is the header followed by the
\* timestamps of the first events of the timeline in order: one line per
\* pixel commit, plus the line of the event whose stage or commit is pending
\* or has failed; the file only grows by appending.
C8_LogAppendOnly ==
  /\ [](LogInitialised =>
          LET n == Len(PixelCommits)
              lines == Len(logFile) - 1
          IN /\ logFile # <<>>
             /\ logFile[1] = HEADER
             /\ lines = IF pc \in {"loop_add", "loop_commit"} THEN n + 1 ELSE n
             /\ \A i \in 1..lines : logFile[i + 1] = IsoOf(all_commits[i].ts)
             /\ \A i \in 1..n : logFile[i + 1] = PixelCommits[i].authored)
  /\ [][LogInitialised => IsPrefix(logFile, logFile')]_vars

C8_Witness ==
  /\ outcome = "CalledProcessError"
  /\ pc = "loop_commit"
  /\ Len(PixelCommits) = 2
  /\ Len(logFile) = 4

\* The messages of the events of day t, in timeline order.
MessagesAt(t) ==
  LET at == SelectSeq(all_commits, LAMBDA e : e.ts.day = t)
  IN [i \in 1..Len(at) |-> at[i].message]

\* The messages of the periods that have an "on" cell on day t, in the
\* order the periods are declared.
DeclaredAt(t) ==
  LET hit == SelectSeq(TIMELINE, LAMBDA per :
               \E cell \in OnCells(build_rows(per.message).rows) :
                 CellDay(per.start, cell) = t)
  IN [i \in 1..Len(hit) |-> hit[i].message]

\* C9: events of the merged timeline that share a timestamp are ordered by
\* the declaration order of their periods, and the merged length is the sum
\* of the periods' lengths.
C9_TiesInDeclarationOrder ==
  TimelineBuilt =>
    /\ Len(all_commits) = SumOnCells(TIMELINE, Len(TIMELINE))
    /\ \A k \in 1..Len(all_commits) :
         MessagesAt(all_commits[k].ts.day) = DeclaredAt(all_commits[k].ts.day)

C9_Witness ==
  /\ pc = "seed"
  /\ Len(TIMELINE) = 2
  /\ TIMELINE[1] = [start |-> 7, message |-> <<"I">>]
  /\ TIMELINE[2] = [start |-> 7, message |-> <<"'">>]
  /\ MessagesAt(21) = << <<"I">>, <<"'">> >>

\* C10: the run aborts on a git failure exactly when the failing command is
\* the orphan checkout, the staging of the log file, the seed commit or a
\* replay stage/commit; nothing runs after the abort and the commits stay;
\* a failure of the unstage-all or of staging a pre-existing file lets the
\* run continue with the next file and then the log file.
C10_FatalAndToleratedFailures ==
  /\ []( /\ outcome = "CalledProcessError" <=> failures \cap FatalSteps # {}
         /\ outcome = "CalledProcessError" =>
              /\ pc \in FatalSteps
              /\ pc \in failures
              /\ ~ENABLED Next
         /\ (outcome = "running" /\ pc = "add_files") => ENABLED (AddFile \/ WriteLog) )
  /\ [][ /\ failures' # failures /\ failures' \ failures \subseteq ToleratedSteps =>
              /\ outcome' = "running"
              /\ pc' = "add_files"
              /\ fi' = IF pc = "rm_cached" THEN 1 ELSE fi + 1
              /\ commits' = commits
         /\ outcome' = "CalledProcessError" =>
              /\ commits' = commits
              /\ ncmds' = ncmds + 1
    ]_vars

C10_Witness ==
  /\ outcome = "CalledProcessError"
  /\ pc = "loop_commit"
  /\ failures = {"rm_cached", "add_files", "loop_commit"}
  /\ Len(commits) = 3
====
